---------------------------- MODULE Spec2Model ----------------------------
(***************************************************************************)
(* Model of infer_subc_2d/organelles/cytosol.py and golgi.py:              *)
(*   - infer_cytosol, a pure function on boolean volumes;                  *)
(*   - infer_golgi / fixed_infer_golgi, a pipeline of primitive operators; *)
(*   - get_cytosol / get_golgi, the load-or-compute-and-export wrappers    *)
(*     around the on-disk store of inferred organelles.                    *)
(* Volumes are one-dimensional arrays of NVox voxels.  Real-valued         *)
(* parameters are written in hundredths (1.34 is 134).                     *)
(***************************************************************************)
EXTENDS Integers, Sequences, FiniteSets, TLC

VARIABLES
    cyt,      \* the running call of infer_cytosol: arguments, locals, position
    gol,      \* the running call of infer_golgi / fixed_infer_golgi
    call,     \* the running call of get_cytosol / get_golgi
    cache,    \* the on-disk store: slot -> exported volume, or None
    trace,    \* calls made by the running get_* call, in order (a spy)
    memo,     \* slot -> the first call that missed and exported, and the
              \* algorithm runs since (a spy)
    nCalls,   \* number of get_* calls started
    twin,     \* an earlier, finished call of fixed_infer_golgi, kept to compare
              \* the running one with
    peer      \* a second invocation of get_*, suspended while the one in
              \* call and trace runs

vars == <<cyt, gol, call, cache, trace, memo, nCalls, twin, peer>>

\* Python's None: the "absent" sentinel and the value of an unset local.
None == <<>>
\* no exception raised
NoErr == "none"

\* ------------------------------------------------------------------ bounds
\* number of voxels of a volume
NVox == 2
\* number of get_* calls in one run
MaxCalls == 2

\* ---------------------------------------------------------------- volumes
Voxels == 1..NVox

\* boolean volumes (np.ndarray of bool) of shape (NVox,)
Masks == [Voxels -> BOOLEAN]

AllFalse == [v \in Voxels |-> FALSE]
AllTrue == [v \in Voxels |-> TRUE]

\* np.logical_xor, np.logical_and, np.logical_or: voxel-wise
logical_xor(a, b) == [v \in Voxels |-> a[v] # b[v]]
logical_and(a, b) == [v \in Voxels |-> a[v] /\ b[v]]
logical_or(a, b) == [v \in Voxels |-> a[v] \/ b[v]]

\* skimage.morphology.binary_erosion with its default footprint (the voxel and
\* its face neighbours); voxels outside the array count as set.
binary_erosion(img) ==
    [v \in Voxels |-> /\ img[v]
                      /\ (v > 1 => img[v - 1])
                      /\ (v < NVox => img[v + 1])]

\* infer_subc_2d.utils.img.apply_mask: the volume restricted to the mask.
apply_mask(img, mask) == [v \in Voxels |-> img[v] /\ mask[v]]

\* ------------------------------------------------------------ infer_cytosol
\* cytosol.py:33-36 with the masked nucleus (nucleus_obj) in place of the
\* nucleus as given.
CytosolCombineMasked(soma_mask, nuclei_object, nucleus_obj, erode_nuclei) ==
    IF erode_nuclei
      THEN logical_xor(soma_mask, binary_erosion(nucleus_obj))
      ELSE logical_xor(soma_mask, nucleus_obj)

\* cytosol.py:33-36.  nucleus_obj, the local of line 31, is in scope and unused.
CytosolCombine(soma_mask, nuclei_object, nucleus_obj, erode_nuclei) ==
    IF erode_nuclei
      THEN logical_xor(soma_mask, binary_erosion(nuclei_object))
      ELSE logical_xor(soma_mask, nuclei_object)

\* cytosol.py:12-38 as one evaluation.
infer_cytosol(nuclei_object, soma_mask, erode_nuclei) ==
    LET nucleus_obj == apply_mask(nuclei_object, soma_mask)
    IN  CytosolCombine(soma_mask, nuclei_object, nucleus_obj, erode_nuclei)

\* -------------------------------------------------------------- infer_golgi
\* grey-level volumes of shape (NVox,)
Intensities == {0, 1}
Vols == [Voxels -> Intensities]

\* A raw multichannel volume, as far as infer_golgi reads it: whether it has
\* the channel GOLGI_CH, and that channel.
RawImgs == [has_golgi_ch : BOOLEAN, golgi_ch : Vols]

\* infer_subc_2d.constants.GOLGI_CH (golgi.py:9, 72)
GOLGI_CH == "GOLGI_CH"

\* golgi.py:121-130, the locals of fixed_infer_golgi
FixedParams ==
    [median_sz |-> 4, gauss_sig |-> 134, mo_method |-> "tri", mo_adjust |-> 90,
     mo_cutoff_size |-> 1200, min_thickness |-> 160, thin |-> 1,
     dot_scale |-> 160, dot_cut |-> 2, small_obj_w |-> 3]

\* golgi.py:132-144 with dot_scale and dot_cut passed in each other's place.
FixedArgsSwapped(in_img) ==
    LET p == FixedParams
    IN  <<in_img, p.median_sz, p.gauss_sig, p.mo_method, p.mo_adjust, p.mo_cutoff_size,
          p.min_thickness, p.thin, p.dot_cut, p.dot_scale, p.small_obj_w>>

\* golgi.py:132-144, the positional arguments of the call of infer_golgi
FixedArgs(in_img) ==
    LET p == FixedParams
    IN  <<in_img, p.median_sz, p.gauss_sig, p.mo_method, p.mo_adjust, p.mo_cutoff_size,
          p.min_thickness, p.thin, p.dot_scale, p.dot_cut, p.small_obj_w>>

\* golgi.py:22-34, the signature of infer_golgi: positions to parameter names
BindInferGolgi(args) ==
    [median_sz |-> args[2], gauss_sig |-> args[3], mo_method |-> args[4],
     mo_adjust |-> args[5], mo_cutoff_size |-> args[6], min_thickness |-> args[7],
     thin |-> args[8], dot_scale |-> args[9], dot_cut |-> args[10],
     small_obj_w |-> args[11]]

\* Threshold methods the docstring of infer_golgi names (golgi.py:44-47).
KnownMethods == {"triangle", "tri", "median", "med", "ave_tri_med", "ave"}

\* Parameter sets of the direct calls of infer_golgi: the preset, and the
\* preset with one parameter changed, to an admissible or an inadmissible value.
ParamSets ==
    {[FixedParams EXCEPT !.mo_method = m] : m \in {"median", "bogus"}}
    \cup {[FixedParams EXCEPT !.thin = -1],
          [FixedParams EXCEPT !.min_thickness = -160],
          [FixedParams EXCEPT !.small_obj_w = -3]}

\* The cytoplasm_mask arguments of the calls of fixed_infer_golgi: omitted
\* (the default None), or a mask.
CytoplasmMasks == {None, AllFalse, AllTrue}

\* A value held by a local of infer_golgi: the data and the stage that made it.
Val(stage, d) == [by |-> stage, d |-> d]

\* The masks contained in mask m.
SubMasks(m) == {s \in Masks : \A v \in Voxels : s[v] => m[v]}

\* A call of infer_golgi about to run line 77.
GolEntry(via, in_img, cytoplasm_mask, args) ==
    [pc |-> "L77", via |-> via, in_img |-> in_img, cytoplasm_mask |-> cytoplasm_mask,
     par |-> BindInferGolgi(args),
     golgi |-> None, bw |-> None, bw_thin |-> None, bw_extra |-> None,
     struct_obj |-> None, ret |-> None, err |-> NoErr, stages |-> <<>>]

\* A stage of infer_golgi as the spy sees it: the primitive called, the stages
\* that made its inputs, the inputs, the parameters passed; and once it has
\* run, what it returned or raised.
Stage(op, in, d, par) == [op |-> op, in |-> in, d |-> d, par |-> par]
Ran(st, out, e) ==
    [op |-> st.op, in |-> st.in, d |-> st.d, par |-> st.par, out |-> out, err |-> e]

\* The call ends with an exception raised by a primitive.
GolRaise(g, stage, e) ==
    [g EXCEPT !.pc = "done", !.err = e,
              !.stages = Append(g.stages, Ran(stage, None, e))]

\* golgi.py:92 passing the thinned threshold mask to the blob detector.
DotInputThinned(g) == g.bw_thin

\* golgi.py:92: the first argument of dot_2d_slice_by_slice_wrapper
DotInput(g) == g.golgi

CytIdle == [pc |-> "idle"]
GolIdle == [pc |-> "idle"]
CallIdle == [pc |-> "START"]
PeerIdle == [pc |-> "none"]

\* A call infer_cytosol(nuclei_object, soma_mask, erode_nuclei) about to run
\* line 31.
CytEntry(n, s, e) ==
    [pc |-> "L31", nuclei_object |-> n, soma_mask |-> s, erode_nuclei |-> e,
     nucleus_obj |-> None, cytosol_mask |-> None, ret |-> None]

\* line 31: nucleus_obj = apply_mask(nuclei_object, soma_mask)
Cyt_ApplyMask ==
    /\ cyt.pc = "L31"
    /\ cyt' = [cyt EXCEPT !.pc = "L33",
                          !.nucleus_obj = apply_mask(cyt.nuclei_object, cyt.soma_mask)]
    /\ UNCHANGED <<gol, call, cache, trace, memo, nCalls, twin, peer>>

\* lines 33-36: the xor, on the eroded or the raw nucleus
Cyt_Xor ==
    /\ cyt.pc = "L33"
    /\ cyt' = [cyt EXCEPT !.pc = "L38",
                          !.cytosol_mask = CytosolCombine(cyt.soma_mask, cyt.nuclei_object,
                                                          cyt.nucleus_obj, cyt.erode_nuclei)]
    /\ UNCHANGED <<gol, call, cache, trace, memo, nCalls, twin, peer>>

\* line 38: return cytosol_mask
Cyt_Return ==
    /\ cyt.pc = "L38"
    /\ cyt' = [cyt EXCEPT !.pc = "done", !.ret = cyt.cytosol_mask]
    /\ UNCHANGED <<gol, call, cache, trace, memo, nCalls, twin, peer>>

GolRest == <<cyt, call, cache, trace, memo, nCalls, twin, peer>>

\* golgi.py:132-144 with the volume restricted to cytoplasm_mask before the
\* call of infer_golgi.
FixedEntryMasked(in_img, cytoplasm_mask) ==
    LET masked == IF cytoplasm_mask = None
                    THEN in_img
                    ELSE [in_img EXCEPT !.golgi_ch =
                             [v \in Voxels |-> IF cytoplasm_mask[v] THEN @[v] ELSE 0]]
    IN  GolEntry("fixed_infer_golgi", masked, cytoplasm_mask, FixedArgs(masked))

\* golgi.py:107-144: fixed_infer_golgi(in_img, cytoplasm_mask) up to the entry
\* of infer_golgi, which gets in_img and the preset; cytoplasm_mask is not read
FixedEntry(in_img, cytoplasm_mask) ==
    GolEntry("fixed_infer_golgi", in_img, cytoplasm_mask, FixedArgs(in_img))

\* a direct call infer_golgi(in_img, median_sz, ..., small_obj_w)
Call_infer_golgi(in_img, p) ==
    /\ gol.pc = "idle"
    /\ gol' = GolEntry("infer_golgi", in_img, None,
                       <<in_img, p.median_sz, p.gauss_sig, p.mo_method, p.mo_adjust,
                         p.mo_cutoff_size, p.min_thickness, p.thin, p.dot_scale,
                         p.dot_cut, p.small_obj_w>>)
    /\ UNCHANGED GolRest

\* golgi.py:107-144: fixed_infer_golgi(in_img, cytoplasm_mask) up to the entry
\* of infer_golgi
Call_fixed_infer_golgi(in_img, cytoplasm_mask) ==
    /\ gol.pc = "idle"
    /\ gol' = FixedEntry(in_img, cytoplasm_mask)
    /\ UNCHANGED GolRest

\* line 77: golgi = select_channel_from_raw(in_img, golgi_ch)
Gol_Extract ==
    /\ gol.pc = "L77"
    /\ LET st == Stage("select_channel_from_raw", <<"in_img">>, <<gol.in_img>>,
                       [ch |-> GOLGI_CH])
       IN  IF gol.in_img.has_golgi_ch
             THEN gol' = [gol EXCEPT !.pc = "L82",
                                     !.golgi = Val(st.op, gol.in_img.golgi_ch),
                                     !.stages = Append(@, Ran(st, gol.in_img.golgi_ch,
                                                              NoErr))]
             ELSE gol' = GolRaise(gol, st, "ChannelOutOfRange")
    /\ UNCHANGED GolRest

\* line 82: golgi = scale_and_smooth(golgi, median_sz=median_sz, gauss_sig=gauss_sig)
Gol_Smooth ==
    /\ gol.pc = "L82"
    /\ LET st == Stage("scale_and_smooth", <<gol.golgi.by>>, <<gol.golgi.d>>,
                       [median_sz |-> gol.par.median_sz, gauss_sig |-> gol.par.gauss_sig])
       IN  \E out \in Vols :
              gol' = [gol EXCEPT !.pc = "L87", !.golgi = Val(st.op, out),
                                 !.stages = Append(@, Ran(st, out, NoErr))]
    /\ UNCHANGED GolRest

\* line 87: bw = masked_object_thresh(golgi, th_method=mo_method,
\*                                    cutoff_size=mo_cutoff_size, th_adjust=mo_adjust)
Gol_Thresh ==
    /\ gol.pc = "L87"
    /\ LET st == Stage("masked_object_thresh", <<gol.golgi.by>>, <<gol.golgi.d>>,
                       [th_method |-> gol.par.mo_method,
                        cutoff_size |-> gol.par.mo_cutoff_size,
                        th_adjust |-> gol.par.mo_adjust])
       IN  \/ \E out \in Masks :
                 gol' = [gol EXCEPT !.pc = "L89", !.bw = Val(st.op, out),
                                    !.stages = Append(@, Ran(st, out, NoErr))]
           \/ /\ gol.par.mo_method \notin KnownMethods
              /\ gol' = GolRaise(gol, st, "PrimitiveError")
    /\ UNCHANGED GolRest

\* line 89: bw_thin = topology_preserving_thinning(bw, min_thickness, thin)
Gol_Thin ==
    /\ gol.pc = "L89"
    /\ LET st == Stage("topology_preserving_thinning", <<gol.bw.by>>, <<gol.bw.d>>,
                       [min_thickness |-> gol.par.min_thickness, thin |-> gol.par.thin])
       IN  \/ \E out \in SubMasks(gol.bw.d) :
                 gol' = [gol EXCEPT !.pc = "L92", !.bw_thin = Val(st.op, out),
                                    !.stages = Append(@, Ran(st, out, NoErr))]
           \/ /\ (gol.par.min_thickness < 0 \/ gol.par.thin < 0)
              /\ gol' = GolRaise(gol, st, "PrimitiveError")
    /\ UNCHANGED GolRest

\* lines 91-92: s3_param = [(dot_cut, dot_scale)]
\*              bw_extra = dot_2d_slice_by_slice_wrapper(golgi, s3_param)
Gol_Dot ==
    /\ gol.pc = "L92"
    /\ LET s3_param == <<<<gol.par.dot_cut, gol.par.dot_scale>>>>
           st == Stage("dot_2d_slice_by_slice_wrapper", <<DotInput(gol).by>>,
                       <<DotInput(gol).d>>,
                       [s3_param |-> s3_param])
       IN  \E out \in Masks :
              gol' = [gol EXCEPT !.pc = "L95", !.bw_extra = Val(st.op, out),
                                 !.stages = Append(@, Ran(st, out, NoErr))]
    /\ UNCHANGED GolRest

\* line 95: bw = np.logical_or(bw_extra, bw_thin)
Gol_Or ==
    /\ gol.pc = "L95"
    /\ LET st == Stage("logical_or", <<gol.bw_extra.by, gol.bw_thin.by>>,
                       <<gol.bw_extra.d, gol.bw_thin.d>>, <<>>)
           out == logical_or(gol.bw_extra.d, gol.bw_thin.d)
       IN  gol' = [gol EXCEPT !.pc = "L99", !.bw = Val(st.op, out),
                              !.stages = Append(@, Ran(st, out, NoErr))]
    /\ UNCHANGED GolRest

\* line 99: struct_obj = size_filter_linear_size(bw, min_size=small_obj_w, connectivity=1)
Gol_SizeFilter ==
    /\ gol.pc = "L99"
    /\ LET st == Stage("size_filter_linear_size", <<gol.bw.by>>, <<gol.bw.d>>,
                       [min_size |-> gol.par.small_obj_w, connectivity |-> 1])
       IN  \/ \E out \in SubMasks(gol.bw.d) :
                 gol' = [gol EXCEPT !.pc = "L101", !.struct_obj = Val(st.op, out),
                                    !.stages = Append(@, Ran(st, out, NoErr))]
           \/ /\ gol.par.small_obj_w < 0
              /\ gol' = GolRaise(gol, st, "PrimitiveError")
    /\ UNCHANGED GolRest

\* line 101: return struct_obj
Gol_Return ==
    /\ gol.pc = "L101"
    /\ gol' = [gol EXCEPT !.pc = "done", !.ret = gol.struct_obj.d]
    /\ UNCHANGED GolRest

\* ------------------------------------------------- get_cytosol, get_golgi
\* Organelle identities, metadata records and output locations of the calls.
Identities == {"cytosol", "golgi"}
Metas == {"a.czi", "b.czi"}
Paths == {"out"}

\* A cache slot: (organelle identity, metadata, output location).
Slots == Identities \X Metas \X Paths

EmptyCache == [s \in Slots |-> None]

\* The masks and raw volumes the calls of get_cytosol and get_golgi are given:
\* nothing set, everything set, the first voxel alone; a volume with or
\* without the Golgi channel, dark or bright.
SampleMasks == {AllFalse, AllTrue, [v \in Voxels |-> v = 1]}
SampleImgs ==
    {[has_golgi_ch |-> h, golgi_ch |-> [v \in Voxels |-> i]] :
        h \in BOOLEAN, i \in Intensities}

\* import_inferred_organelle(name, meta_dict, out_data_path) on store c: what
\* the adapter may do.  A stored volume is returned as stored; absence is
\* signalled by returning None or by raising a not-found signal; a storage
\* fault may be raised at any time.
ImportOutcomes(c, slot) ==
    (IF c[slot] # None
       THEN {[kind |-> "value", v |-> c[slot], e |-> NoErr]}
       ELSE {[kind |-> "absent", v |-> None, e |-> NoErr],
             [kind |-> "not_found", v |-> None, e |-> "NotFound"]})
    \cup {[kind |-> "fault", v |-> None, e |-> "PersistenceFailure"]}

\* export_inferred_organelle(img, name, meta_dict, out_data_path): the store
\* after a successful export, and the file name it returns.
Exported(c, slot, img) == [c EXCEPT ![slot] = img]
ExportFileName(slot) == [file |-> slot]

\* the spy's records
ImportEvent(slot, o) ==
    [op |-> "import_inferred_organelle", name |-> slot[1], meta_dict |-> slot[2],
     out_data_path |-> slot[3], kind |-> o.kind, v |-> o.v]
AlgoEvent(op, args, out, e) == [op |-> op, args |-> args, out |-> out, err |-> e]
ExportEvent(img, slot, ok) ==
    [op |-> "export_inferred_organelle", img |-> img, name |-> slot[1],
     meta_dict |-> slot[2], out_data_path |-> slot[3], ok |-> ok]

\* cytosol.py:70: a call of get_cytosol about to run line 90
CytosolEntry(nuclei_obj, soma_mask, meta_dict, out_data_path) ==
    [pc |-> "LOOKUP", fn |-> "get_cytosol", nuclei_obj |-> nuclei_obj,
     soma_mask |-> soma_mask, in_img |-> None, meta_dict |-> meta_dict,
     out_data_path |-> out_data_path, organelle |-> None, lookup |-> "",
     miss |-> FALSE, ret |-> None, err |-> NoErr]

\* golgi.py:171: a call of get_golgi about to run line 191
GolgiEntry(in_img, meta_dict, out_data_path) ==
    [pc |-> "LOOKUP", fn |-> "get_golgi", nuclei_obj |-> None, soma_mask |-> None,
     in_img |-> in_img, meta_dict |-> meta_dict, out_data_path |-> out_data_path,
     organelle |-> None, lookup |-> "", miss |-> FALSE, ret |-> None, err |-> NoErr]

\* golgi.py:166 exporting under the identity of the cytosol.
GolgiExportKeyCytosol(c) == <<"cytosol", c.meta_dict, c.out_data_path>>

\* the (name, meta_dict, out_data_path) passed at cytosol.py:90, cytosol.py:65,
\* golgi.py:191 and golgi.py:166
CytosolImportKey(c) == <<"cytosol", c.meta_dict, c.out_data_path>>
CytosolExportKey(c) == <<"cytosol", c.meta_dict, c.out_data_path>>
GolgiImportKey(c) == <<"golgi", c.meta_dict, c.out_data_path>>
GolgiExportKey(c) == <<"golgi", c.meta_dict, c.out_data_path>>

\* cytosol.py:92 with the test always taken.
CytosolIsMissAlways(cytosol) == TRUE

\* cytosol.py:92: if cytosol is None
CytosolIsMiss(cytosol) == cytosol = None

\* golgi.py:192: the bare except catches every exception
GolgiCatches(e) == TRUE

\* cytosol.py:67, golgi.py:168 returning the exported file name.
InferAndExportReturnName(organelle, out_file_n) == out_file_n

\* cytosol.py:67, golgi.py:168: return cytosol / return golgi
InferAndExportReturn(organelle, out_file_n) == organelle

\* The call ends with exception e leaving it.
Raised(c, e) == [c EXCEPT !.pc = "DONE", !.err = e]

\* The call ends returning v.
Returned(c, v) == [c EXCEPT !.pc = "DONE", !.ret = v]

\* cytosol.py:65, golgi.py:166 wrapped in a handler that drops the exception.
ExportFailedSwallowed(c, e) == Returned(c, c.organelle)

\* cytosol.py:65, golgi.py:166: export raises e; no handler is around the
\* call (golgi.py:195 runs inside the except clause, not inside the try)
ExportFailed(c, e) == Raised(c, e)

\* the get_* calls are made one after the other (spec 5)
CallReady == call.pc = "START" /\ nCalls < MaxCalls

Call_get_cytosol(nuclei_obj, soma_mask, meta_dict, out_data_path) ==
    /\ CallReady
    /\ call' = CytosolEntry(nuclei_obj, soma_mask, meta_dict, out_data_path)
    /\ trace' = <<>>
    /\ nCalls' = nCalls + 1
    /\ UNCHANGED <<cyt, gol, cache, memo, twin, peer>>

Call_get_golgi(in_img, meta_dict, out_data_path) ==
    /\ CallReady
    /\ call' = GolgiEntry(in_img, meta_dict, out_data_path)
    /\ trace' = <<>>
    /\ nCalls' = nCalls + 1
    /\ UNCHANGED <<cyt, gol, cache, memo, twin, peer>>

\* cytosol.py:97, golgi.py:199: the call is over, with its value or its
\* exception handed to the caller
Call_Return ==
    /\ call.pc = "DONE"
    /\ call' = CallIdle
    /\ trace' = <<>>
    /\ UNCHANGED <<cyt, gol, cache, memo, nCalls, twin, peer>>

\* cytosol.py:90-97 up to the call of infer_and_export_cytosol
Cytosol_Lookup ==
    /\ call.pc = "LOOKUP" /\ call.fn = "get_cytosol"
    /\ \E o \in ImportOutcomes(cache, CytosolImportKey(call)) :
         /\ trace' = Append(trace, ImportEvent(CytosolImportKey(call), o))
         /\ LET c == [call EXCEPT !.lookup = o.kind]
            IN  IF o.e # NoErr
                  THEN call' = Raised(c, o.e)
                  ELSE IF CytosolIsMiss(o.v)
                         THEN call' = [c EXCEPT !.pc = "COMPUTE", !.miss = TRUE,
                                                !.organelle = o.v]
                         ELSE call' = Returned([c EXCEPT !.organelle = o.v], o.v)
    /\ UNCHANGED <<cyt, gol, cache, memo, nCalls, twin, peer>>

\* The first call that missed, computed and exported on a slot, and the
\* organelle algorithm runs made for the slot from that call on.
MemoAlgo(m, slot) ==
    IF m[slot] = None THEN m ELSE [m EXCEPT ![slot].algos = @ + 1]
MemoExport(m, slot, img, n) ==
    IF m[slot] = None THEN [m EXCEPT ![slot] = [mask |-> img, by |-> n, algos |-> 1]]
                      ELSE m

\* cytosol.py:63 with erode_nuclei=False passed.
InferCytosolNoErode(nuclei_object, soma_mask) ==
    infer_cytosol(nuclei_object, soma_mask, FALSE)

\* cytosol.py:63: infer_cytosol(nuclei_object, soma_mask), with erode_nuclei
\* left to its default (cytosol.py:12)
InferCytosolDefault(nuclei_object, soma_mask) ==
    infer_cytosol(nuclei_object, soma_mask, TRUE)

\* cytosol.py:63: cytosol = infer_cytosol(nuclei_object, soma_mask)
Cytosol_Compute ==
    /\ call.pc = "COMPUTE" /\ call.fn = "get_cytosol"
    /\ LET cytosol == InferCytosolDefault(call.nuclei_obj, call.soma_mask)
       IN  /\ call' = [call EXCEPT !.pc = "EXPORT", !.organelle = cytosol]
           /\ trace' = Append(trace, AlgoEvent("infer_cytosol",
                                 <<call.nuclei_obj, call.soma_mask>>, cytosol, NoErr))
    /\ memo' = MemoAlgo(memo, CytosolExportKey(call))
    /\ UNCHANGED <<cyt, gol, cache, nCalls, twin, peer>>

\* cytosol.py:65-67, then 97
Cytosol_Export ==
    /\ call.pc = "EXPORT" /\ call.fn = "get_cytosol"
    /\ LET slot == CytosolExportKey(call)
       IN  \/ /\ cache' = Exported(cache, slot, call.organelle)
              /\ trace' = Append(trace, ExportEvent(call.organelle, slot, TRUE))
              /\ call' = Returned(call, InferAndExportReturn(call.organelle,
                                                             ExportFileName(slot)))
              /\ memo' = MemoExport(memo, slot, call.organelle, nCalls)
           \/ /\ trace' = Append(trace, ExportEvent(call.organelle, slot, FALSE))
              /\ call' = ExportFailed(call, "PersistenceFailure")
              /\ UNCHANGED <<cache, memo>>
    /\ UNCHANGED <<cyt, gol, nCalls, twin, peer>>

\* golgi.py:190-192, and 199 when the import returns
Golgi_Lookup ==
    /\ call.pc = "LOOKUP" /\ call.fn = "get_golgi"
    /\ \E o \in ImportOutcomes(cache, GolgiImportKey(call)) :
         /\ trace' = Append(trace, ImportEvent(GolgiImportKey(call), o))
         /\ LET c == [call EXCEPT !.lookup = o.kind]
            IN  IF o.e = NoErr
                  THEN call' = Returned([c EXCEPT !.organelle = o.v], o.v)
                  ELSE IF GolgiCatches(o.e)
                         THEN call' = [c EXCEPT !.pc = "COMPUTE", !.miss = TRUE]
                         ELSE call' = Raised(c, o.e)
    /\ UNCHANGED <<cyt, gol, cache, memo, nCalls, twin, peer>>

\* fixed_infer_golgi(in_img) as one step: the channel extraction fails on a
\* volume without the Golgi channel; otherwise the pipeline, run with the
\* preset, returns a mask.
FixedInferGolgiOutcomes(in_img) ==
    IF in_img.has_golgi_ch
      THEN {[out |-> m, e |-> NoErr] : m \in Masks}
      ELSE {[out |-> None, e |-> "ChannelOutOfRange"]}

\* golgi.py:193-195, 165: golgi = fixed_infer_golgi(in_img)
Golgi_Compute ==
    /\ call.pc = "COMPUTE" /\ call.fn = "get_golgi"
    /\ \E r \in FixedInferGolgiOutcomes(call.in_img) :
         /\ trace' = Append(trace, AlgoEvent("fixed_infer_golgi", <<call.in_img>>,
                                             r.out, r.e))
         /\ IF r.e = NoErr
              THEN call' = [call EXCEPT !.pc = "EXPORT", !.organelle = r.out]
              ELSE call' = Raised(call, r.e)
    /\ memo' = MemoAlgo(memo, GolgiExportKey(call))
    /\ UNCHANGED <<cyt, gol, cache, nCalls, twin, peer>>

\* golgi.py:166-168, then 196-199
Golgi_Export ==
    /\ call.pc = "EXPORT" /\ call.fn = "get_golgi"
    /\ LET slot == GolgiExportKey(call)
       IN  \/ /\ cache' = Exported(cache, slot, call.organelle)
              /\ trace' = Append(trace, ExportEvent(call.organelle, slot, TRUE))
              /\ call' = Returned(call, InferAndExportReturn(call.organelle,
                                                             ExportFileName(slot)))
              /\ memo' = MemoExport(memo, slot, call.organelle, nCalls)
           \/ /\ trace' = Append(trace, ExportEvent(call.organelle, slot, FALSE))
              /\ call' = ExportFailed(call, "PersistenceFailure")
              /\ UNCHANGED <<cache, memo>>
    /\ UNCHANGED <<cyt, gol, nCalls, twin, peer>>

EmptyCacheInit ==
    /\ call = CallIdle
    /\ cache = EmptyCache
    /\ trace = <<>>
    /\ memo = EmptyCache
    /\ nCalls = 0
    /\ twin = GolIdle
    /\ peer = PeerIdle

InitCytosol ==
    /\ \E n \in Masks, s \in Masks, e \in BOOLEAN : cyt = CytEntry(n, s, e)
    /\ gol = GolIdle
    /\ EmptyCacheInit

NextCytosol == Cyt_ApplyMask \/ Cyt_Xor \/ Cyt_Return

\* infer_cytosol applied to every pair of masks, with and without erosion.
SpecCytosol == InitCytosol /\ [][NextCytosol]_vars

InitGolgi ==
    /\ cyt = CytIdle
    /\ gol = GolIdle
    /\ EmptyCacheInit

NextGolgi ==
    \/ \E in_img \in RawImgs, p \in ParamSets : Call_infer_golgi(in_img, p)
    \/ \E in_img \in RawImgs, cm \in CytoplasmMasks : Call_fixed_infer_golgi(in_img, cm)
    \/ Gol_Extract
    \/ Gol_Smooth
    \/ Gol_Thresh
    \/ Gol_Thin
    \/ Gol_Dot
    \/ Gol_Or
    \/ Gol_SizeFilter
    \/ Gol_Return

\* infer_golgi called directly and through fixed_infer_golgi, stage by stage.
SpecGolgi == InitGolgi /\ [][NextGolgi]_vars

\* Two calls of fixed_infer_golgi on the same volume, one after the other,
\* with different cytoplasm_mask arguments.  The second call is held in twin
\* until the first has ended; then the first is kept in twin.
TwinPending(in_img, cytoplasm_mask) ==
    [pc |-> "pending", in_img |-> in_img, cytoplasm_mask |-> cytoplasm_mask]

Twin_First(in_img, cm1, cm2) ==
    /\ gol.pc = "idle" /\ twin.pc = "idle"
    /\ gol' = FixedEntry(in_img, cm1)
    /\ twin' = TwinPending(in_img, cm2)
    /\ UNCHANGED <<cyt, call, cache, trace, memo, nCalls, peer>>

Twin_Second ==
    /\ gol.pc = "done" /\ twin.pc = "pending"
    /\ gol' = FixedEntry(twin.in_img, twin.cytoplasm_mask)
    /\ twin' = gol
    /\ UNCHANGED <<cyt, call, cache, trace, memo, nCalls, peer>>

\* The primitives are functions of their arguments: called again with the
\* inputs and parameters of a call the first run made, a primitive returns
\* (or raises) what it did then.
PrimitiveAgrees(s1, s2) ==
    (s1.op = s2.op /\ s1.d = s2.d /\ s1.par = s2.par)
        => (s1.out = s2.out /\ s1.err = s2.err)

SameAnswers ==
    (twin.pc = "done" /\ Len(gol'.stages) > Len(gol.stages)) =>
        \A j \in 1..Len(twin.stages) :
            PrimitiveAgrees(gol'.stages[Len(gol'.stages)], twin.stages[j])

\* The cytoplasm_mask arguments of the two calls: omitted and a mask, or two
\* masks.
TwinMaskPairs == {<<None, AllFalse>>, <<None, AllTrue>>, <<AllFalse, AllTrue>>}

InitTwin ==
    /\ cyt = CytIdle
    /\ gol = GolIdle
    /\ EmptyCacheInit

NextTwin ==
    \/ \E in_img \in SampleImgs, cms \in TwinMaskPairs :
          Twin_First(in_img, cms[1], cms[2])
    \/ Twin_Second
    \/ Gol_Extract /\ SameAnswers
    \/ Gol_Smooth /\ SameAnswers
    \/ Gol_Thresh /\ SameAnswers
    \/ Gol_Thin /\ SameAnswers
    \/ Gol_Dot /\ SameAnswers
    \/ Gol_Or /\ SameAnswers
    \/ Gol_SizeFilter /\ SameAnswers
    \/ Gol_Return /\ SameAnswers

SpecTwin == InitTwin /\ [][NextTwin]_vars

Init ==
    /\ cyt = CytIdle
    /\ gol = GolIdle
    /\ EmptyCacheInit

Next ==
    \/ \E n \in SampleMasks, s \in SampleMasks, m \in Metas, p \in Paths :
          Call_get_cytosol(n, s, m, p)
    \/ \E i \in SampleImgs, m \in Metas, p \in Paths : Call_get_golgi(i, m, p)
    \/ Cytosol_Lookup
    \/ Cytosol_Compute
    \/ Cytosol_Export
    \/ Golgi_Lookup
    \/ Golgi_Compute
    \/ Golgi_Export
    \/ Call_Return

\* Calls of get_cytosol and get_golgi, one after the other, on a store that
\* starts empty.
Spec == Init /\ [][Next]_vars

\* An invocation of get_* that is not running: its call record and the calls
\* it has made so far.
Held(c, tr) == [pc |-> "held", call |-> c, trace |-> tr]

\* Two invocations of get_cytosol with the same arguments are started; the
\* first runs, the second is held.
Race_get_cytosol(nuclei_obj, soma_mask, meta_dict, out_data_path) ==
    /\ call.pc = "START" /\ peer.pc = "none" /\ nCalls = 0
    /\ call' = CytosolEntry(nuclei_obj, soma_mask, meta_dict, out_data_path)
    /\ peer' = Held(CytosolEntry(nuclei_obj, soma_mask, meta_dict, out_data_path), <<>>)
    /\ trace' = <<>>
    /\ nCalls' = 2
    /\ UNCHANGED <<cyt, gol, cache, memo, twin>>

\* The same for get_golgi.
Race_get_golgi(in_img, meta_dict, out_data_path) ==
    /\ call.pc = "START" /\ peer.pc = "none" /\ nCalls = 0
    /\ call' = GolgiEntry(in_img, meta_dict, out_data_path)
    /\ peer' = Held(GolgiEntry(in_img, meta_dict, out_data_path), <<>>)
    /\ trace' = <<>>
    /\ nCalls' = 2
    /\ UNCHANGED <<cyt, gol, cache, memo, twin>>

\* The scheduler takes the running invocation off and puts the held one on.
\* Nothing in get_cytosol or get_golgi takes a lock, so this may happen
\* between any two of their adapter and algorithm calls.
Race_Switch ==
    /\ peer.pc = "held"
    /\ call' = peer.call
    /\ trace' = peer.trace
    /\ peer' = Held(call, trace)
    /\ UNCHANGED <<cyt, gol, cache, memo, nCalls, twin>>

NextRace ==
    \/ \E n \in SampleMasks, s \in SampleMasks, m \in Metas, p \in Paths :
          Race_get_cytosol(n, s, m, p)
    \/ \E i \in SampleImgs, m \in Metas, p \in Paths : Race_get_golgi(i, m, p)
    \/ Race_Switch
    \/ Cytosol_Lookup
    \/ Cytosol_Compute
    \/ Cytosol_Export
    \/ Golgi_Lookup
    \/ Golgi_Compute
    \/ Golgi_Export

\* Two invocations of the same get_* function on the same slot, interleaved
\* in every way, on a store that starts empty.
SpecRace == Init /\ [][NextRace]_vars

\* ------------------------------------------------------------------ claims

\* a get_* call is running or has just ended
InCall == call.pc # "START"

\* the organelle identity of the running call, and its cache slot
CallIdentity == IF call.fn = "get_cytosol" THEN "cytosol" ELSE "golgi"
CallSlot == <<CallIdentity, call.meta_dict, call.out_data_path>>

\* positions in the spy's record of the organelle algorithm and of export
AlgoRuns == {i \in 1..Len(trace) : trace[i].op \in {"infer_cytosol", "fixed_infer_golgi"}}
ExportRuns == {i \in 1..Len(trace) : trace[i].op = "export_inferred_organelle"}

\* C1: in a call of get_cytosol or get_golgi whose lookup returned a stored
\* volume, neither the organelle algorithm nor export is invoked, up to the
\* end of the call.
C1_CacheShortCircuit ==
    (InCall /\ call.lookup = "value") => (AlgoRuns = {} /\ ExportRuns = {})

\* C1 witness: a call that found its slot filled and returned what was stored.
C1_Witness ==
    /\ call.pc = "DONE"
    /\ call.lookup = "value"
    /\ call.err = NoErr
    /\ call.ret \in Masks
    /\ call.ret = cache[CallSlot]
    /\ Len(trace) = 1

\* C2: a call that ends returns a mask, never the "absent" sentinel; and when
\* the artifact is absent, whether the adapter returns the sentinel or raises
\* not-found, the organelle algorithm runs and a returned value is the mask it
\* computed.
C2_EveryPathYieldsMask ==
    (InCall /\ call.pc = "DONE") =>
        /\ call.err = NoErr => call.ret \in Masks
        /\ call.lookup \in {"absent", "not_found"} =>
              /\ AlgoRuns # {}
              /\ call.err = NoErr => \A j \in AlgoRuns : call.ret = trace[j].out

C4_MemoizedAfterFirstMiss ==
    \A s \in Slots :
        memo[s] # None =>
            /\ memo[s].algos = 1
            /\ (InCall /\ call.pc = "DONE" /\ call.err = NoErr
                  /\ CallSlot = s /\ nCalls > memo[s].by)
                  => (call.lookup = "value" /\ call.ret = memo[s].mask)

\* C5: a storage fault raised by the lookup leaves the call as a
\* PersistenceFailure; neither the organelle algorithm nor export runs in
\* that call.
C5_FaultSurfaced ==
    (InCall /\ call.lookup = "fault") =>
        /\ AlgoRuns = {}
        /\ ExportRuns = {}
        /\ call.pc = "DONE" => call.err = "PersistenceFailure"

\* C6: a failed export ends the call with the failure raised to the caller;
\* a call that took the miss path and returned normally has written its slot
\* with the mask it returns.
C6_ExportFailureReported ==
    InCall =>
        /\ \A i \in ExportRuns :
              ~trace[i].ok => (call.pc = "DONE" /\ call.err = "PersistenceFailure")
        /\ (call.pc = "DONE" /\ call.miss /\ call.err = NoErr)
              => (ExportRuns # {} /\ cache[CallSlot] = call.ret)

\* C6 witness: export failed on an empty slot and the call ended with the
\* failure.
C6_Witness ==
    /\ call.pc = "DONE"
    /\ call.miss
    /\ call.err = "PersistenceFailure"
    /\ \E i \in ExportRuns : ~trace[i].ok
    /\ cache[CallSlot] = None


CytDone == cyt.pc = "done"

\* The nucleus that enters the xor: eroded when erode_nuclei, raw otherwise.
CytNucleusUsed ==
    IF cyt.erode_nuclei THEN binary_erosion(cyt.nuclei_object) ELSE cyt.nuclei_object

C9_SomaAndNotNucleus ==
    (CytDone /\ ~cyt.erode_nuclei) =>
        \A v \in Voxels : cyt.ret[v] = (cyt.soma_mask[v] /\ ~cyt.nuclei_object[v])

\* Parameter values outside their admissible domains: a threshold method that
\* is none of triangle, median, ave (nor one of the aliases the docstring of
\* infer_golgi gives them), or a negative thin, min_thickness or small_obj_w.
Inadmissible(p) ==
    \/ p.mo_method \notin KnownMethods
    \/ p.thin < 0
    \/ p.min_thickness < 0
    \/ p.small_obj_w < 0

GolRunning == gol.pc # "idle"

\* C7: a call of infer_golgi with an inadmissible parameter value runs no
\* pipeline stage and ends with InvalidParameter.
C7_RejectsBeforeAnyStage ==
    (GolRunning /\ Inadmissible(gol.par)) =>
        /\ gol.stages = <<>>
        /\ gol.pc = "done" => gol.err = "InvalidParameter"

\* C10 as amended: fixed_infer_golgi passes infer_golgi median_sz=4,
\* gauss_sig=1.34, mo_method="tri", mo_adjust=0.90, mo_cutoff_size=1200,
\* min_thickness=1.6, thin=1, dot_scale=1.6, dot_cut=0.02, small_obj_w=3, each
\* under the parameter of that name, and the volume it was given.
C10_ForwardsPreset ==
    (GolRunning /\ gol.via = "fixed_infer_golgi") =>
        gol.par = [median_sz |-> 4, gauss_sig |-> 134, mo_method |-> "tri",
                   mo_adjust |-> 90, mo_cutoff_size |-> 1200, min_thickness |-> 160,
                   thin |-> 1, dot_scale |-> 160, dot_cut |-> 2, small_obj_w |-> 3]

\* C10 witness: a call through fixed_infer_golgi that ran every stage with the
\* forwarded parameters and returned.
C10_Witness ==
    /\ gol.pc = "done"
    /\ gol.via = "fixed_infer_golgi"
    /\ gol.ret \in Masks
    /\ Len(gol.stages) = 7

\* C10 as claimed: the same, with mo_method="triangle".
C10_ForwardsTriangle ==
    (GolRunning /\ gol.via = "fixed_infer_golgi") =>
        gol.par = [median_sz |-> 4, gauss_sig |-> 134, mo_method |-> "triangle",
                   mo_adjust |-> 90, mo_cutoff_size |-> 1200, min_thickness |-> 160,
                   thin |-> 1, dot_scale |-> 160, dot_cut |-> 2, small_obj_w |-> 3]

\* C12: in a call whose lookup found a stored volume, the slot keeps the
\* volume the lookup loaded, and the call returns that volume, whatever
\* inputs it was given: nothing is recomputed or checked against them.
C12_HitReturnsStored ==
    (InCall /\ call.lookup = "value") =>
        /\ trace[1].v \in Masks
        /\ cache[CallSlot] = trace[1].v
        /\ call.pc = "DONE"
        /\ call.err = NoErr
        /\ call.ret = trace[1].v

\* C12 witness: a call of get_cytosol on a filled slot returned the stored
\* mask although its own nucleus and soma give another one.
C12_Witness ==
    /\ call.pc = "DONE"
    /\ call.fn = "get_cytosol"
    /\ call.lookup = "value"
    /\ call.ret \in Masks
    /\ call.ret = cache[CallSlot]
    /\ call.ret # InferCytosolDefault(call.nuclei_obj, call.soma_mask)

\* C17: in a call of get_cytosol that missed, the mask computed, the mask
\* handed to export, the mask stored and the mask returned are all
\* infer_cytosol(nuclei_obj, soma_mask, erode_nuclei=TRUE): the non-eroded
\* variant is never stored or returned.
C17_MissAlwaysErodes ==
    (InCall /\ call.fn = "get_cytosol" /\ call.miss) =>
        LET eroded == infer_cytosol(call.nuclei_obj, call.soma_mask, TRUE)
        IN  /\ \A j \in AlgoRuns : trace[j].out = eroded
            /\ \A i \in ExportRuns :
                  /\ trace[i].img = eroded
                  /\ trace[i].ok => cache[CallSlot] = eroded
            /\ (call.pc = "DONE" /\ call.err = NoErr) => call.ret = eroded

\* C17 witness: get_cytosol missed, stored and returned the eroded variant
\* for a nucleus that erosion changes, so that the two variants differ.
C17_Witness ==
    /\ call.pc = "DONE"
    /\ call.fn = "get_cytosol"
    /\ call.miss
    /\ call.err = NoErr
    /\ call.ret \in Masks
    /\ call.ret = cache[CallSlot]
    /\ call.ret = infer_cytosol(call.nuclei_obj, call.soma_mask, TRUE)
    /\ call.ret # infer_cytosol(call.nuclei_obj, call.soma_mask, FALSE)

\* C18: a step of a call changes no slot but the call's own (its organelle
\* identity, its metadata, its output location); every import and export of
\* the call names that slot, so the export writes the slot the lookup read;
\* get_cytosol touches only "cytosol" slots and get_golgi only "golgi" slots.
C18_SlotIsolation ==
    [][ /\ \A s \in Slots : cache'[s] # cache[s] => s = CallSlot
        /\ Len(trace') > Len(trace) =>
              LET ev == trace'[Len(trace')]
                  first == trace'[1]
              IN  ev.op \in {"import_inferred_organelle", "export_inferred_organelle"} =>
                     /\ ev.name = (IF call.fn = "get_cytosol" THEN "cytosol" ELSE "golgi")
                     /\ ev.meta_dict = call.meta_dict
                     /\ ev.out_data_path = call.out_data_path
                     /\ first.op = "import_inferred_organelle"
                     /\ <<ev.name, ev.meta_dict, ev.out_data_path>>
                           = <<first.name, first.meta_dict, first.out_data_path>>
      ]_vars

\* C18 witness: get_golgi missed and wrote its slot while the cytosol slot of
\* the same metadata and location holds another mask, left as it was.
C18_Witness ==
    /\ call.pc = "DONE"
    /\ call.fn = "get_golgi"
    /\ call.miss
    /\ call.err = NoErr
    /\ call.ret \in Masks
    /\ cache[CallSlot] = call.ret
    /\ cache[<<"cytosol", call.meta_dict, call.out_data_path>>] \in Masks
    /\ cache[<<"cytosol", call.meta_dict, call.out_data_path>>] # call.ret
    /\ memo[<<"cytosol", call.meta_dict, call.out_data_path>>].mask
          = cache[<<"cytosol", call.meta_dict, call.out_data_path>>]

\* The stages of infer_golgi in the order of spec 4.2.
PipelineOrder ==
    <<"select_channel_from_raw", "scale_and_smooth", "masked_object_thresh",
      "topology_preserving_thinning", "dot_2d_slice_by_slice_wrapper",
      "logical_or", "size_filter_linear_size">>

\* What each stage is fed: the volume passed in, or the output of the named
\* stages.
PipelineInputs ==
    <<  <<"in_img">>,
        <<"select_channel_from_raw">>,
        <<"scale_and_smooth">>,
        <<"masked_object_thresh">>,
        <<"scale_and_smooth">>,
        <<"dot_2d_slice_by_slice_wrapper", "topology_preserving_thinning">>,
        <<"logical_or">>  >>

\* C14: the stages of a call of infer_golgi run in the order extract, smooth,
\* threshold, thinning, blob detection, OR, size filter, none twice; the
\* threshold and the blob detector both take the smoothed channel, thinning
\* takes the threshold's output, OR takes the blob mask and the thinned mask,
\* the size filter takes OR's result with min_size = small_obj_w and
\* connectivity 1; a call that returns has run all seven and returns the size
\* filter's output.
C14_StagesInOrder ==
    GolRunning =>
        /\ Len(gol.stages) <= 7
        /\ \A i \in 1..Len(gol.stages) :
              /\ gol.stages[i].op = PipelineOrder[i]
              /\ gol.stages[i].in = PipelineInputs[i]
              /\ i < Len(gol.stages) => gol.stages[i].err = NoErr
        /\ Len(gol.stages) = 7 =>
              gol.stages[7].par = [min_size |-> gol.par.small_obj_w, connectivity |-> 1]
        /\ (gol.pc = "done" /\ gol.err = NoErr) =>
              /\ Len(gol.stages) = 7
              /\ gol.stages[7].err = NoErr
              /\ gol.ret = gol.stages[7].out

\* C14 witness: a call that returned, in which the thresholded mask, the
\* thinned mask and the blob mask are not all the same.
C14_Witness ==
    /\ gol.pc = "done"
    /\ gol.err = NoErr
    /\ Len(gol.stages) = 7
    /\ gol.ret \in Masks
    /\ gol.stages[3].out # gol.stages[4].out
    /\ gol.stages[5].out # gol.stages[4].out

\* C15: the mask the size filter is given is, voxel by voxel, the union of the
\* thinned threshold mask and the blob mask: no voxel of either is lost, no
\* voxel of neither is added.
C15_FilterGetsUnion ==
    (GolRunning /\ Len(gol.stages) = 7) =>
        /\ gol.stages[7].in = <<"logical_or">>
        /\ \A v \in Voxels :
              gol.stages[7].d[1][v] = (gol.stages[4].out[v] \/ gol.stages[5].out[v])

\* C15 witness: the size filter ran on a union that is neither the thinned
\* mask nor the blob mask.
C15_Witness ==
    /\ GolRunning
    /\ Len(gol.stages) = 7
    /\ gol.stages[7].err = NoErr
    /\ gol.stages[7].d[1] # gol.stages[4].out
    /\ gol.stages[7].d[1] # gol.stages[5].out

\* C11: of two calls of fixed_infer_golgi on the same volume that differ only
\* in cytoplasm_mask, the second makes the primitive calls the first made, in
\* the same order with the same inputs and parameters, ends as the first ended
\* and returns the mask the first returned.
C11_CytoplasmMaskIgnored ==
    (twin.pc = "done" /\ gol.pc # "idle") =>
        /\ gol.cytoplasm_mask # twin.cytoplasm_mask
        /\ gol.par = twin.par
        /\ Len(gol.stages) <= Len(twin.stages)
        /\ \A i \in 1..Len(gol.stages) : gol.stages[i] = twin.stages[i]
        /\ gol.pc = "done" =>
              /\ gol.stages = twin.stages
              /\ gol.err = twin.err
              /\ gol.ret = twin.ret

\* C11 witness: both calls returned a mask after seven stages, one given an
\* all-false cytoplasm_mask and the other an all-true one.
C11_Witness ==
    /\ twin.pc = "done"
    /\ gol.pc = "done"
    /\ twin.cytoplasm_mask = AllFalse
    /\ gol.cytoplasm_mask = AllTrue
    /\ Len(gol.stages) = 7
    /\ gol.ret \in Masks
    /\ gol.ret = twin.ret
    /\ gol.ret # AllFalse

\* the two invocations of a race: the running one and the held one
Racers == {[call |-> call, trace |-> trace], [call |-> peer.call, trace |-> peer.trace]}

\* the exports an invocation has made
ExportsOf(tr) == {i \in 1..Len(tr) : tr[i].op = "export_inferred_organelle"}

\* C16 as amended: of two interleaved invocations on an empty slot, each
\* exports at most once, only after its own lookup did not return a stored
\* volume, and only to the slot both were called for; both may export.
C16_EachExportsAfterOwnMiss ==
    peer.pc = "held" =>
        \A r \in Racers :
            /\ Cardinality(ExportsOf(r.trace)) <= 1
            /\ \A i \in ExportsOf(r.trace) :
                  /\ r.call.miss
                  /\ r.call.lookup # "value"
                  /\ r.trace[i].meta_dict = peer.call.meta_dict
                  /\ r.trace[i].out_data_path = peer.call.out_data_path
                  /\ r.trace[i].name = (IF peer.call.fn = "get_cytosol" THEN "cytosol"
                                                                       ELSE "golgi")

\* C16 witness: both invocations missed, both exported to the slot and both
\* returned.
C16_Witness ==
    /\ peer.pc = "held"
    /\ call.pc = "DONE" /\ peer.call.pc = "DONE"
    /\ call.err = NoErr /\ peer.call.err = NoErr
    /\ call.miss /\ peer.call.miss
    /\ call.lookup \in {"absent", "not_found"}
    /\ peer.call.lookup \in {"absent", "not_found"}
    /\ \E i \in ExportsOf(trace) : trace[i].ok
    /\ \E i \in ExportsOf(peer.trace) : peer.trace[i].ok
    /\ cache[CallSlot] \in Masks

\* C16 as claimed: of two interleaved invocations on an empty slot, at most
\* one writes the slot (lookups ended by a storage fault aside).
C16_AtMostOneExporter ==
    (peer.pc = "held" /\ call.lookup # "fault" /\ peer.call.lookup # "fault") =>
        \/ \A i \in ExportsOf(trace) : ~trace[i].ok
        \/ \A i \in ExportsOf(peer.trace) : ~peer.trace[i].ok

=============================================================================
